---------------------------- MODULE Spec2Model ----------------------------
(***************************************************************************)
(* A DNS message codec (src/src/dns.rs) and the UDP request/response       *)
(* server built around a bounded channel (src/src/main.rs).                *)
(*                                                                         *)
(* Bytes are naturals 0..255, byte strings are sequences of bytes, a Rust  *)
(* String is the sequence of its UTF-8 bytes.  A nom IResult is a record   *)
(* [ok |-> TRUE, rest, val] or [ok |-> FALSE, err], err being the nom      *)
(* ErrorKind ("Eof": not enough input, "MapRes": the mapped function       *)
(* failed).                                                                *)
(***************************************************************************)
EXTENDS Integers, Sequences, FiniteSets, TLC

(***************************************************************************)
(* Integer helpers: fixed-width arithmetic of u8 / u16 / u32.              *)
(***************************************************************************)
RECURSIVE Pow2(_)
Pow2(n) == IF n = 0 THEN 1 ELSE 2 * Pow2(n - 1)

Min(a, b) == IF a < b THEN a ELSE b

\* a << k on a u8: bits shifted past bit 7 are lost
Shl8(a, k) == (a * Pow2(k)) % 256

\* a | b on the low n bits
RECURSIVE BitOr(_, _, _)
BitOr(a, b, n) ==
    IF n = 0 THEN 0
    ELSE (IF a % 2 = 1 \/ b % 2 = 1 THEN 1 ELSE 0)
         + 2 * BitOr(a \div 2, b \div 2, n - 1)

Or8(a, b) == BitOr(a, b, 8)

\* u16::to_be_bytes
U16Bytes(v) == << (v \div 256) % 256, v % 256 >>

\* A u32 is the pair << high 16 bits, low 16 bits >>: TLC's integers are
\* 32-bit signed and stop short of 2^32.
U32(hi, lo) == << hi, lo >>

\* u32::to_be_bytes
U32Bytes(v) == U16Bytes(v[1]) \o U16Bytes(v[2])

\* input[n..] of a slice
Drop(s, n) == SubSeq(s, n + 1, Len(s))

\* String::from_utf8 accepts exactly the well-formed UTF-8 byte sequences:
\* every byte that is not a continuation byte (80..BF) starts a character
\* of 1 to 4 bytes, followed by exactly its continuation bytes, the second
\* byte within the range its lead byte allows
Utf8CharLen(lead) ==
    IF lead <= 127 THEN 1
    ELSE IF lead >= 194 /\ lead <= 223 THEN 2
    ELSE IF lead >= 224 /\ lead <= 239 THEN 3
    ELSE IF lead >= 240 /\ lead <= 244 THEN 4
    ELSE 0

Utf8SecondLow(lead) ==
    IF lead = 224 THEN 160 ELSE IF lead = 240 THEN 144 ELSE 128

Utf8SecondHigh(lead) ==
    IF lead = 237 THEN 159 ELSE IF lead = 244 THEN 143 ELSE 191

IsUtf8(b) ==
    LET IsCont(i) == b[i] >= 128 /\ b[i] <= 191 IN
    \A i \in 1..Len(b) :
        IF IsCont(i)
        THEN \E j \in 1..3 :
                /\ i - j >= 1
                /\ ~IsCont(i - j)
                /\ Utf8CharLen(b[i - j]) > j
                /\ \A k \in 1..(j - 1) : IsCont(i - k)
        ELSE /\ Utf8CharLen(b[i]) > 0
             /\ i + Utf8CharLen(b[i]) - 1 <= Len(b)
             /\ \A k \in 1..(Utf8CharLen(b[i]) - 1) : IsCont(i + k)
             /\ Utf8CharLen(b[i]) > 1 =>
                    /\ b[i + 1] >= Utf8SecondLow(b[i])
                    /\ b[i + 1] <= Utf8SecondHigh(b[i])

(***************************************************************************)
(* dns.rs: encoders (ToBytes).                                             *)
(***************************************************************************)
\* DnsLabels::to_bytes: (len as u8) + bytes per label, then a 0 byte
RECURSIVE DnsLabels_to_bytes(_)
DnsLabels_to_bytes(labels) ==
    IF labels = << >> THEN << 0 >>
    ELSE << Len(Head(labels)) % 256 >> \o Head(labels)
         \o DnsLabels_to_bytes(Tail(labels))

\* DnsQuestion::to_bytes
DnsQuestion_to_bytes(q) ==
    DnsLabels_to_bytes(q.qname) \o U16Bytes(q.qtype) \o U16Bytes(q.qclass)

\* DnsAnswer::to_bytes: the rdata length is written as (len as u16)
DnsAnswer_to_bytes(a) ==
    DnsLabels_to_bytes(a.name) \o U16Bytes(a.answer_type) \o U16Bytes(a.class)
    \o U32Bytes(a.ttl) \o U16Bytes(Len(a.data) % 65536) \o a.data

\* a plausible slip: the opcode shifted by its width instead of its place
DnsHeader_to_bytes_shift4(h) ==
    U16Bytes(h.id)
    \o << Or8(Or8(Or8(Or8(Shl8(h.qr, 7), Shl8(h.opcode, 4)), Shl8(h.aa, 2)),
                  Shl8(h.tc, 1)), h.rd) >>
    \o << Or8(Or8(Shl8(h.ra, 7), Shl8(h.z, 4)), h.rcode) >>
    \o U16Bytes(h.qdcount) \o U16Bytes(h.ancount)
    \o U16Bytes(h.nscount) \o U16Bytes(h.arcount)

\* DnsHeader::to_bytes
DnsHeader_to_bytes(h) ==
    U16Bytes(h.id)
    \o << Or8(Or8(Or8(Or8(Shl8(h.qr, 7), Shl8(h.opcode, 3)), Shl8(h.aa, 2)),
                  Shl8(h.tc, 1)), h.rd) >>
    \o << Or8(Or8(Shl8(h.ra, 7), Shl8(h.z, 4)), h.rcode) >>
    \o U16Bytes(h.qdcount) \o U16Bytes(h.ancount)
    \o U16Bytes(h.nscount) \o U16Bytes(h.arcount)

RECURSIVE ConcatQuestions(_)
ConcatQuestions(qs) ==
    IF qs = << >> THEN << >>
    ELSE DnsQuestion_to_bytes(Head(qs)) \o ConcatQuestions(Tail(qs))

RECURSIVE ConcatAnswers(_)
ConcatAnswers(as) ==
    IF as = << >> THEN << >>
    ELSE DnsAnswer_to_bytes(Head(as)) \o ConcatAnswers(Tail(as))

\* DnsMessage::to_bytes: header, then the questions, then the answers
DnsMessage_to_bytes(m) ==
    DnsHeader_to_bytes(m.header) \o ConcatQuestions(m.questions)
    \o ConcatAnswers(m.answers)

\* the fixed name of the canned records
CannedName ==
    << << 99, 111, 100, 101, 99, 114, 97, 102, 116, 101, 114, 115 >>,
       << 105, 111 >> >>

\* response(req)
response(req) ==
    [ header |->
        [ id |-> req.header.id, qr |-> 1, opcode |-> req.header.opcode,
          aa |-> 0, tc |-> 0, rd |-> req.header.rd, ra |-> 0, z |-> 0,
          rcode |-> IF req.header.opcode = 0 THEN 0 ELSE 4,
          qdcount |-> 1, ancount |-> 1, nscount |-> 0, arcount |-> 0 ],
      questions |-> << [ qname |-> CannedName, qtype |-> 1, qclass |-> 1 ] >>,
      answers |-> << [ name |-> CannedName, answer_type |-> 1, class |-> 1,
                       ttl |-> U32(0, 60), data |-> << 8, 8, 8, 8 >> ] >> ]

(***************************************************************************)
(* nom combinators, as dns.rs and main.rs use them.                        *)
(***************************************************************************)
Ok(rest, val) == [ ok |-> TRUE, rest |-> rest, val |-> val ]

Err(kind) == [ ok |-> FALSE, err |-> kind ]

be_u8(input) ==
    IF Len(input) < 1 THEN Err("Eof") ELSE Ok(Drop(input, 1), input[1])

be_u16(input) ==
    IF Len(input) < 2 THEN Err("Eof")
    ELSE Ok(Drop(input, 2), input[1] * 256 + input[2])

be_u32(input) ==
    IF Len(input) < 4 THEN Err("Eof")
    ELSE Ok(Drop(input, 4),
            U32(input[1] * 256 + input[2], input[3] * 256 + input[4]))

\* bytes::complete::take(n)
take_bytes(n, input) ==
    IF Len(input) < n THEN Err("Eof")
    ELSE Ok(Drop(input, n), SubSeq(input, 1, n))

\* bits::complete::take(count) on (input, bit_offset): the next count bits,
\* most significant first
RECURSIVE BitsValue(_, _, _)
BitsValue(input, pos, count) ==
    IF count = 0 THEN 0
    ELSE ((input[(pos \div 8) + 1] \div Pow2(7 - (pos % 8))) % 2)
            * Pow2(count - 1)
         + BitsValue(input, pos + 1, count - 1)

take_bits(count, bitin) ==
    LET input == bitin[1]
        off == bitin[2]
    IN  IF count = 0 THEN Ok(bitin, 0)
        ELSE IF Len(input) * 8 < count + off THEN Err("Eof")
        ELSE Ok(<< Drop(input, (count + off) \div 8), (count + off) % 8 >>,
                BitsValue(input, off, count))

(***************************************************************************)
(* dns.rs: decoders.                                                       *)
(***************************************************************************)
\* parse_domain_label: a length byte, then that many bytes of valid UTF-8;
\* val is << >> for the terminating zero byte (None), << label >> otherwise
parse_domain_label(input) ==
    LET rl == be_u8(input) IN
    IF ~rl.ok THEN rl
    ELSE IF rl.val = 0 THEN Ok(rl.rest, << >>)
    ELSE LET rt == take_bytes(rl.val, rl.rest) IN
         IF ~rt.ok THEN rt
         ELSE IF ~IsUtf8(rt.val) THEN Err("MapRes")
         ELSE Ok(rt.rest, << rt.val >>)

\* dns_labels: the loop, with its accumulator qname
RECURSIVE dns_labels_loop(_, _)
dns_labels_loop(remaining_input, qname) ==
    LET r == parse_domain_label(remaining_input) IN
    IF ~r.ok THEN r
    ELSE IF r.val = << >> THEN Ok(r.rest, qname)
    ELSE dns_labels_loop(r.rest, Append(qname, r.val[1]))

dns_labels(input) == dns_labels_loop(input, << >>)

dns_question(input) ==
    LET rn == dns_labels(input) IN
    IF ~rn.ok THEN rn ELSE
    LET rt == be_u16(rn.rest) IN
    IF ~rt.ok THEN rt ELSE
    LET rc == be_u16(rt.rest) IN
    IF ~rc.ok THEN rc
    ELSE Ok(rc.rest, [ qname |-> rn.val, qtype |-> rt.val, qclass |-> rc.val ])

dns_answer(input) ==
    LET rn == dns_labels(input) IN
    IF ~rn.ok THEN rn ELSE
    LET rt == be_u16(rn.rest) IN
    IF ~rt.ok THEN rt ELSE
    LET rc == be_u16(rt.rest) IN
    IF ~rc.ok THEN rc ELSE
    LET rl == be_u32(rc.rest) IN
    IF ~rl.ok THEN rl ELSE
    LET rlen == be_u16(rl.rest) IN
    IF ~rlen.ok THEN rlen ELSE
    LET rd == take_bytes(rlen.val, rlen.rest) IN
    IF ~rd.ok THEN rd
    ELSE Ok(rd.rest, [ name |-> rn.val, answer_type |-> rt.val,
                       class |-> rc.val, ttl |-> rl.val, data |-> rd.val ])

\* dns_header_bits: widths 1/4/1/1/1/1/3/4 over the two packed bytes
dns_header_bits(input) ==
    LET r1 == take_bits(1, << input, 0 >>) IN
    IF ~r1.ok THEN r1 ELSE
    LET r2 == take_bits(4, r1.rest) IN
    IF ~r2.ok THEN r2 ELSE
    LET r3 == take_bits(1, r2.rest) IN
    IF ~r3.ok THEN r3 ELSE
    LET r4 == take_bits(1, r3.rest) IN
    IF ~r4.ok THEN r4 ELSE
    LET r5 == take_bits(1, r4.rest) IN
    IF ~r5.ok THEN r5 ELSE
    LET r6 == take_bits(1, r5.rest) IN
    IF ~r6.ok THEN r6 ELSE
    LET r7 == take_bits(3, r6.rest) IN
    IF ~r7.ok THEN r7 ELSE
    LET r8 == take_bits(4, r7.rest) IN
    IF ~r8.ok THEN r8
    ELSE Ok(r8.rest, [ qr |-> r1.val, opcode |-> r2.val, aa |-> r3.val,
                       tc |-> r4.val, rd |-> r5.val, ra |-> r6.val,
                       z |-> r7.val, rcode |-> r8.val ])

\* tuple((be_u16, be_u16, be_u16, be_u16))
tuple4_be_u16(input) ==
    LET r1 == be_u16(input) IN
    IF ~r1.ok THEN r1 ELSE
    LET r2 == be_u16(r1.rest) IN
    IF ~r2.ok THEN r2 ELSE
    LET r3 == be_u16(r2.rest) IN
    IF ~r3.ok THEN r3 ELSE
    LET r4 == be_u16(r3.rest) IN
    IF ~r4.ok THEN r4
    ELSE Ok(r4.rest, << r1.val, r2.val, r3.val, r4.val >>)

\* a plausible slip: the counts are read only when present (0 otherwise)
dns_header_lenient(input) ==
    LET ri == be_u16(input \o << 0, 0 >>) IN
    LET rb == dns_header_bits(ri.rest \o << 0, 0 >>) IN
    LET rc == tuple4_be_u16(rb.rest[1] \o << 0, 0, 0, 0, 0, 0, 0, 0 >>) IN
    Ok(<< >>,
       [ id |-> ri.val, qr |-> rb.val.qr, opcode |-> rb.val.opcode,
         aa |-> rb.val.aa, tc |-> rb.val.tc, rd |-> rb.val.rd,
         ra |-> rb.val.ra, z |-> rb.val.z, rcode |-> rb.val.rcode,
         qdcount |-> rc.val[1], ancount |-> rc.val[2],
         nscount |-> rc.val[3], arcount |-> rc.val[4] ])

\* dns_header (dns.rs)
dns_header(input) ==
    LET ri == be_u16(input) IN
    IF ~ri.ok THEN ri ELSE
    LET rb == dns_header_bits(ri.rest) IN
    IF ~rb.ok THEN Err(rb.err) ELSE
    LET rc == tuple4_be_u16(rb.rest[1]) IN
    IF ~rc.ok THEN rc
    ELSE Ok(rc.rest,
            [ id |-> ri.val, qr |-> rb.val.qr, opcode |-> rb.val.opcode,
              aa |-> rb.val.aa, tc |-> rb.val.tc, rd |-> rb.val.rd,
              ra |-> rb.val.ra, z |-> rb.val.z, rcode |-> rb.val.rcode,
              qdcount |-> rc.val[1], ancount |-> rc.val[2],
              nscount |-> rc.val[3], arcount |-> rc.val[4] ])

\* count(dns_question, n)
RECURSIVE count_dns_question(_, _, _)
count_dns_question(input, n, acc) ==
    IF n = 0 THEN Ok(input, acc)
    ELSE LET r == dns_question(input) IN
         IF ~r.ok THEN r
         ELSE count_dns_question(r.rest, n - 1, Append(acc, r.val))

\* count(dns_answer, n)
RECURSIVE count_dns_answer(_, _, _)
count_dns_answer(input, n, acc) ==
    IF n = 0 THEN Ok(input, acc)
    ELSE LET r == dns_answer(input) IN
         IF ~r.ok THEN r
         ELSE count_dns_answer(r.rest, n - 1, Append(acc, r.val))

\* a plausible slip: questions are parsed for as long as input remains
RECURSIVE many_dns_question(_, _)
many_dns_question(input, acc) ==
    LET r == dns_question(input) IN
    IF ~r.ok THEN Ok(input, acc)
    ELSE many_dns_question(r.rest, Append(acc, r.val))

\* dns_msg, after the questions: count(dns_answer, header.ancount) decided
dns_msg_built(header, questions, ra) ==
    IF ~ra.ok THEN ra
    ELSE Ok(ra.rest, [ header |-> header, questions |-> questions,
                       answers |-> ra.val ])

\* dns_msg, after the header: count(dns_question, header.qdcount) decided
dns_msg_answers(header, rq) ==
    IF ~rq.ok THEN rq
    ELSE dns_msg_built(header, rq.val,
                       count_dns_answer(rq.rest, header.ancount, << >>))

\* dns_msg, once dns_header(input) is decided
dns_msg_questions(rh) ==
    IF ~rh.ok THEN rh
    ELSE dns_msg_answers(rh.val,
                         count_dns_question(rh.rest, rh.val.qdcount, << >>))

dns_msg_greedy_questions(rh) ==
    IF ~rh.ok THEN rh
    ELSE dns_msg_answers(rh.val, many_dns_question(rh.rest, << >>))

dns_msg_greedy(input) == dns_msg_greedy_questions(dns_header(input))

\* dns_msg
dns_msg(input) == dns_msg_questions(dns_header(input))

(***************************************************************************)
(* main.rs: the server's own header codec and response.                    *)
(***************************************************************************)
\* DnsLabels::to_bytes (main.rs)
RECURSIVE main_DnsLabels_to_bytes(_)
main_DnsLabels_to_bytes(labels) ==
    IF labels = << >> THEN << 0 >>
    ELSE << Len(Head(labels)) % 256 >> \o Head(labels)
         \o main_DnsLabels_to_bytes(Tail(labels))

\* DnsQuestion::to_bytes (main.rs)
main_DnsQuestion_to_bytes(q) ==
    main_DnsLabels_to_bytes(q.labels) \o U16Bytes(q.q_type) \o U16Bytes(q.class)

\* DnsHeader::to_bytes (main.rs)
main_DnsHeader_to_bytes(h) ==
    U16Bytes(h.id)
    \o << Or8(Or8(Or8(Or8(Shl8(h.qr, 7), Shl8(h.opcode, 3)), Shl8(h.aa, 2)),
                  Shl8(h.tc, 1)), h.rd) >>
    \o << Or8(Or8(Shl8(h.ra, 7), Shl8(h.z, 4)), h.rcode) >>
    \o U16Bytes(h.qdcount) \o U16Bytes(h.ancount)
    \o U16Bytes(h.nscount) \o U16Bytes(h.arcount)

\* DnsMessage::to_bytes (main.rs): the header and the optional question;
\* question is << >> (None) or << q >> (Some(q))
main_DnsMessage_to_bytes(m) ==
    main_DnsHeader_to_bytes(m.header)
    \o (IF m.question = << >> THEN << >>
        ELSE main_DnsQuestion_to_bytes(m.question[1]))

\* dns_header (main.rs): take(n) here is bytes::complete::take, so every
\* "bitfield" is read as n whole bytes and its first byte kept
main_dns_header(input) ==
    LET rid == be_u16(input) IN
    IF ~rid.ok THEN rid ELSE
    LET rqr == be_u8(rid.rest) IN
    IF ~rqr.ok THEN rqr ELSE
    LET rop == take_bytes(4, rqr.rest) IN
    IF ~rop.ok THEN rop ELSE
    LET raa == take_bytes(1, rop.rest) IN
    IF ~raa.ok THEN raa ELSE
    LET rtc == take_bytes(1, raa.rest) IN
    IF ~rtc.ok THEN rtc ELSE
    LET rrd == take_bytes(1, rtc.rest) IN
    IF ~rrd.ok THEN rrd ELSE
    LET rra == take_bytes(1, rrd.rest) IN
    IF ~rra.ok THEN rra ELSE
    LET rz == take_bytes(3, rra.rest) IN
    IF ~rz.ok THEN rz ELSE
    LET rrc == take_bytes(4, rz.rest) IN
    IF ~rrc.ok THEN rrc ELSE
    LET rc == tuple4_be_u16(rrc.rest) IN
    IF ~rc.ok THEN rc
    ELSE Ok(rc.rest,
            [ id |-> rid.val, qr |-> rqr.val, opcode |-> rop.val[1],
              aa |-> raa.val[1], tc |-> rtc.val[1], rd |-> rrd.val[1],
              ra |-> rra.val[1], z |-> rz.val[1], rcode |-> rrc.val[1],
              qdcount |-> rc.val[1], ancount |-> rc.val[2],
              nscount |-> rc.val[3], arcount |-> rc.val[4] ])

\* the DnsMessage the response actor builds from the decoded header req
main_response(req) ==
    [ header |->
        [ id |-> req.id, qr |-> 0, opcode |-> 0, aa |-> 0, tc |-> 0,
          rd |-> 0, ra |-> 0, z |-> 0, rcode |-> 0,
          qdcount |-> 0, ancount |-> 0, nscount |-> 0, arcount |-> 0 ],
      question |-> << [ labels |-> CannedName, q_type |-> 1, class |-> 1 ] >> ]

(***************************************************************************)
(* Bounds and inputs.                                                      *)
(***************************************************************************)
\* mpsc::channel::<(Vec<u8>, SocketAddr)>(1_000)
Capacity == 1000

\* let mut buf = [0u8; 1024]
BufSize == 1024

\* datagrams the clients send in one run of the server
MaxDatagrams == 3

\* failures of recv_from in one run
MaxRecvErrors == 1

\* longest prefix an encoded message is cut to
MaxCut == 48

LongLabel(n) == [ i \in 1..n |-> 97 ]

NameGoogle == << << 103, 111, 111, 103, 108, 101 >>, << 99, 111, 109 >> >>

\* "a" and a two-byte UTF-8 label
NameUtf8 == << << 97 >>, << 195, 169 >> >>

\* a name holding an empty label between two others
NameEmptyLabel == << << 97 >>, << >>, << 98 >> >>

Question(n, t, c) == [ qname |-> n, qtype |-> t, qclass |-> c ]

Answer(n, t, c, ttl, d) ==
    [ name |-> n, answer_type |-> t, class |-> c, ttl |-> ttl, data |-> d ]

QuestionLists ==
    { << >>,
      << Question(NameGoogle, 1, 1) >>,
      << Question(CannedName, 1, 1), Question(NameUtf8, 65535, 255) >>,
      << Question(NameEmptyLabel, 1, 1) >>,
      << Question(<< LongLabel(255) >>, 1, 1) >>,
      << Question(<< LongLabel(256) >>, 1, 1) >> }

AnswerLists ==
    { << >>,
      << Answer(NameGoogle, 0, 0, U32(0, 0), << >>) >>,
      << Answer(CannedName, 1, 1, U32(0, 60), << 8, 8, 8, 8 >>) >>,
      << Answer(NameUtf8, 28, 1, U32(65535, 65535), << 255, 0, 1 >>),
         Answer(<< >>, 1, 1, U32(1, 0), << 1 >>) >> }

\* header fields within their widths, the extremes included
HeaderIds == { 1234, 65535 }

HeaderFlags1 ==
    { [ qr |-> 1, opcode |-> 0, aa |-> 0, tc |-> 0, rd |-> 0 ],
      [ qr |-> 0, opcode |-> 15, aa |-> 1, tc |-> 1, rd |-> 1 ],
      [ qr |-> 0, opcode |-> 2, aa |-> 0, tc |-> 0, rd |-> 1 ],
      [ qr |-> 1, opcode |-> 9, aa |-> 1, tc |-> 0, rd |-> 0 ] }

HeaderFlags2 ==
    { [ ra |-> 0, z |-> 0, rcode |-> 0, nscount |-> 0, arcount |-> 0 ],
      [ ra |-> 1, z |-> 7, rcode |-> 15, nscount |-> 65535, arcount |-> 1 ],
      [ ra |-> 0, z |-> 5, rcode |-> 4, nscount |-> 0, arcount |-> 0 ] }

\* a DnsMessage whose counts are those of its record lists
Message(id, f1, f2, qs, as) ==
    [ header |->
        [ id |-> id, qr |-> f1.qr, opcode |-> f1.opcode, aa |-> f1.aa,
          tc |-> f1.tc, rd |-> f1.rd, ra |-> f2.ra, z |-> f2.z,
          rcode |-> f2.rcode, qdcount |-> Len(qs), ancount |-> Len(as),
          nscount |-> f2.nscount, arcount |-> f2.arcount ],
      questions |-> qs, answers |-> as ]

Messages ==
    { Message(id, f1, f2, qs, as) :
        id \in HeaderIds, f1 \in HeaderFlags1, f2 \in HeaderFlags2,
        qs \in QuestionLists, as \in AnswerLists }

\* bytes that follow an encoded message in a datagram
Trailings ==
    { << 0 >>, << 1, 2, 3 >>,
      DnsQuestion_to_bytes(Question(NameGoogle, 1, 1)),
      DnsAnswer_to_bytes(Answer(CannedName, 1, 1, U32(0, 60), << 8, 8, 8, 8 >>)) }

NoMessage ==
    Message(0, [ qr |-> 0, opcode |-> 0, aa |-> 0, tc |-> 0, rd |-> 0 ],
            [ ra |-> 0, z |-> 0, rcode |-> 0, nscount |-> 0, arcount |-> 0 ],
            << >>, << >>)

\* a query as a client sends it: qr = 0, one question, no answer
Query(id, opcode, rd, name) ==
    DnsMessage_to_bytes(
        [ header |->
            [ id |-> id, qr |-> 0, opcode |-> opcode, aa |-> 0, tc |-> 0,
              rd |-> rd, ra |-> 0, z |-> 0, rcode |-> 0, qdcount |-> 1,
              ancount |-> 0, nscount |-> 0, arcount |-> 0 ],
          questions |-> << Question(name, 1, 1) >>, answers |-> << >> ])

Datagram(bytes, addr) == [ bytes |-> bytes, addr |-> addr ]

\* what clients send: nothing, a cut header, a header alone, queries
Arrivals ==
    { Datagram(<< >>, "10.0.0.1:5353"),
      Datagram(SubSeq(Query(7, 0, 0, CannedName), 1, 11), "10.0.0.2:4000"),
      Datagram(SubSeq(Query(8, 0, 0, CannedName), 1, 12), "10.0.0.1:5353"),
      Datagram(Query(9, 0, 1, << << 97 >> >>), "10.0.0.2:4000"),
      Datagram(Query(4660, 0, 0, CannedName), "10.0.0.1:5353"),
      Datagram(Query(48879, 2, 1, CannedName), "10.0.0.2:4000") }

(***************************************************************************)
(* State.                                                                  *)
(***************************************************************************)
VARIABLES
    \* the codec under test
    m,          \* the DnsMessage constructed
    wire,       \* the bytes handed to the decoders
    edit,       \* what was done to the encoding: "none", "cut", "padded"
    stage,      \* "idle", "constructed", "encoded", "decoded"
    res,        \* dns_msg(wire)
    hres,       \* dns_header(wire) of dns.rs
    mhres,      \* dns_header(wire) of main.rs
    \* the server
    inflight,   \* datagrams sent to the socket and not yet read
    rpc,        \* the receive loop: "recv_from" or "tx_send"
    pending,    \* the (bytes, addr) the receive loop is pushing
    queue,      \* the channel's buffer
    hpc,        \* the response actor: "rx_recv" or "send_to"
    cur,        \* the request, response and address the actor holds
    sent,       \* history: the send_to calls that returned, in order
    arrived,    \* history: the datagrams read, in order
    status,     \* history: status[i] is the state of the i-th datagram read
    nerr        \* history: recv_from failures so far

codecVars == << m, wire, edit, stage, res, hres, mhres >>

serverVars ==
    << inflight, rpc, pending, queue, hpc, cur, sent, arrived, status, nerr >>

vars == << codecVars, serverVars >>

NoResult == Err("none")

NoItem == [ bytes |-> << >>, addr |-> "none", seq |-> 0 ]

NoCur == [ req |-> NoMessage.header, response |-> main_response(NoMessage.header),
           bytes |-> << >>, addr |-> "none", seq |-> 0 ]

CodecIdle ==
    /\ m = NoMessage /\ wire = << >> /\ edit = "none" /\ stage = "idle"
    /\ res = NoResult /\ hres = NoResult /\ mhres = NoResult

ServerStart ==
    /\ rpc = "recv_from" /\ pending = NoItem /\ queue = << >>
    /\ hpc = "rx_recv" /\ cur = NoCur /\ sent = << >> /\ arrived = << >>
    /\ status = << >> /\ nerr = 0

(***************************************************************************)
(* The codec: construct a message, encode it, decode.  The decoders take   *)
(* any byte slice: Cut and Pad hand them a prefix of the encoding, or the  *)
(* encoding followed by further bytes.                                     *)
(***************************************************************************)
InitCodec ==
    /\ m \in Messages
    /\ wire = << >> /\ edit = "none" /\ stage = "constructed"
    /\ res = NoResult /\ hres = NoResult /\ mhres = NoResult
    /\ inflight = {} /\ ServerStart

Encode ==
    /\ stage = "constructed"
    /\ wire' = DnsMessage_to_bytes(m)
    /\ stage' = "encoded"
    /\ UNCHANGED << m, edit, res, hres, mhres, serverVars >>

Cut ==
    /\ stage = "encoded" /\ edit = "none"
    /\ \E k \in 0..Min(Len(wire) - 1, MaxCut) :
          wire' = SubSeq(wire, 1, k)
    /\ edit' = "cut"
    /\ UNCHANGED << m, stage, res, hres, mhres, serverVars >>

Pad ==
    /\ stage = "encoded" /\ edit = "none"
    /\ \E t \in Trailings : wire' = wire \o t
    /\ edit' = "padded"
    /\ UNCHANGED << m, stage, res, hres, mhres, serverVars >>

Decode ==
    /\ stage = "encoded"
    /\ res' = dns_msg(wire)
    /\ hres' = dns_header(wire)
    /\ mhres' = main_dns_header(wire)
    /\ stage' = "decoded"
    /\ UNCHANGED << m, wire, edit, serverVars >>

NextCodec == Encode \/ Cut \/ Pad \/ Decode

SpecCodec == InitCodec /\ [][NextCodec]_vars

(***************************************************************************)
(* The server: the receive loop and the response actor of main.            *)
(***************************************************************************)
Init ==
    /\ CodecIdle
    /\ inflight \in { S \in SUBSET Arrivals : Cardinality(S) <= MaxDatagrams }
    /\ ServerStart

\* receiver.recv_from(&mut buf) returns Ok((len, addr))
RecvFrom ==
    /\ rpc = "recv_from"
    /\ \E d \in inflight :
          LET bytes == SubSeq(d.bytes, 1, Min(Len(d.bytes), BufSize)) IN
          /\ inflight' = inflight \ { d }
          /\ pending' = [ bytes |-> bytes, addr |-> d.addr,
                          seq |-> Len(arrived) + 1 ]
          /\ arrived' = Append(arrived, Datagram(bytes, d.addr))
          /\ status' = Append(status, "Received")
    /\ rpc' = "tx_send"
    /\ UNCHANGED << codecVars, queue, hpc, cur, sent, nerr >>

\* receiver.recv_from(&mut buf) returns Err: logged, the loop continues
RecvFromErr ==
    /\ rpc = "recv_from"
    /\ nerr < MaxRecvErrors
    /\ nerr' = nerr + 1
    /\ UNCHANGED << codecVars, inflight, rpc, pending, queue, hpc, cur, sent,
                    arrived, status >>

\* a plausible slip: try_send, which gives the datagram up when the
\* channel is full
TxTrySend ==
    /\ rpc = "tx_send"
    /\ IF Len(queue) < Capacity
       THEN /\ queue' = Append(queue, pending)
            /\ status' = [ status EXCEPT ![pending.seq] = "Queued" ]
       ELSE UNCHANGED << queue, status >>
    /\ pending' = NoItem
    /\ rpc' = "recv_from"
    /\ UNCHANGED << codecVars, inflight, hpc, cur, sent, arrived, nerr >>

\* tx.send((buf[..len].to_vec(), addr)).await completes once the channel
\* has a free slot; the receiver is never dropped, so it never fails
TxSend ==
    /\ rpc = "tx_send"
    /\ Len(queue) < Capacity
    /\ queue' = Append(queue, pending)
    /\ status' = [ status EXCEPT ![pending.seq] = "Queued" ]
    /\ pending' = NoItem
    /\ rpc' = "recv_from"
    /\ UNCHANGED << codecVars, inflight, hpc, cur, sent, arrived, nerr >>

\* the actor's step from rx.recv() to send_to, for the item taken and what
\* is left of the queue
ActorStep(item, rest) ==
    LET a == main_dns_header(item.bytes) IN
    /\ queue' = rest
    /\ \/ /\ ~a.ok
          /\ status' = [ status EXCEPT ![item.seq] = "DecodeFailed" ]
          /\ UNCHANGED << hpc, cur, sent >>
       \/ /\ a.ok
          /\ cur' = [ req |-> a.val, response |-> main_response(a.val),
                      bytes |-> main_DnsMessage_to_bytes(main_response(a.val)),
                      addr |-> item.addr, seq |-> item.seq ]
          /\ status' = [ status EXCEPT ![item.seq] = "ResponseBuilt" ]
          /\ hpc' = "send_to"
          /\ UNCHANGED sent
    /\ UNCHANGED << codecVars, inflight, rpc, pending, arrived, nerr >>

\* a plausible slip: the newest item is taken first
ActorRecvNewest ==
    /\ hpc = "rx_recv"
    /\ queue # << >>
    /\ ActorStep(queue[Len(queue)], SubSeq(queue, 1, Len(queue) - 1))

\* a plausible slip: a response is sent although the header did not decode
ActorRecvAnswersAll ==
    /\ hpc = "rx_recv"
    /\ queue # << >>
    /\ LET item == Head(queue) IN
       /\ queue' = Tail(queue)
       /\ cur' = [ NoCur EXCEPT !.bytes = main_DnsMessage_to_bytes(NoCur.response),
                                !.addr = item.addr, !.seq = item.seq ]
       /\ status' = [ status EXCEPT ![item.seq] = "ResponseBuilt" ]
       /\ hpc' = "send_to"
    /\ UNCHANGED << codecVars, inflight, rpc, pending, sent, arrived, nerr >>

\* while let Some((bytes, addr)) = rx.recv().await { dns_header; build }
ActorRecv ==
    /\ hpc = "rx_recv"
    /\ queue # << >>
    /\ ActorStep(Head(queue), Tail(queue))

\* sender.send_to(&response.to_bytes(), &addr).await returns Ok(len)
ActorSendOk ==
    /\ hpc = "send_to"
    /\ sent' = Append(sent, [ seq |-> cur.seq, addr |-> cur.addr,
                              bytes |-> cur.bytes, ok |-> TRUE ])
    /\ status' = [ status EXCEPT ![cur.seq] = "Sent" ]
    /\ cur' = NoCur
    /\ hpc' = "rx_recv"
    /\ UNCHANGED << codecVars, inflight, rpc, pending, queue, arrived, nerr >>

\* sender.send_to(...).await returns Err: logged, the response is discarded
ActorSendErr ==
    /\ hpc = "send_to"
    /\ sent' = Append(sent, [ seq |-> cur.seq, addr |-> cur.addr,
                              bytes |-> cur.bytes, ok |-> FALSE ])
    /\ status' = [ status EXCEPT ![cur.seq] = "SendFailed" ]
    /\ cur' = NoCur
    /\ hpc' = "rx_recv"
    /\ UNCHANGED << codecVars, inflight, rpc, pending, queue, arrived, nerr >>

Next ==
    \/ RecvFrom \/ RecvFromErr \/ TxSend
    \/ ActorRecv \/ ActorSendOk \/ ActorSendErr

Spec == Init /\ [][Next]_vars

(***************************************************************************)
(* The server with its channel one short of full: Capacity - 1 empty       *)
(* datagrams were read and pushed before the actor was first scheduled,    *)
(* and two more are on their way.                                          *)
(***************************************************************************)
InitLoaded ==
    /\ CodecIdle
    /\ inflight = { d \in Arrivals : d.bytes \in { Query(9, 0, 1, << << 97 >> >>),
                                                   Query(48879, 2, 1, CannedName) } }
    /\ rpc = "recv_from" /\ pending = NoItem
    /\ queue = [ i \in 1..(Capacity - 1) |->
                   [ bytes |-> << >>, addr |-> "10.0.0.1:5353", seq |-> i ] ]
    /\ hpc = "rx_recv" /\ cur = NoCur /\ sent = << >>
    /\ arrived = [ i \in 1..(Capacity - 1) |-> Datagram(<< >>, "10.0.0.1:5353") ]
    /\ status = [ i \in 1..(Capacity - 1) |-> "Queued" ]
    /\ nerr = 0

SpecLoaded == InitLoaded /\ [][Next]_vars

(***************************************************************************)
(* Properties of the codec (SpecCodec).                                    *)
(***************************************************************************)
AllLabels(msg) ==
    UNION { { msg.questions[i].qname[j] : j \in 1..Len(msg.questions[i].qname) } :
              i \in 1..Len(msg.questions) }
    \cup
    UNION { { msg.answers[i].name[j] : j \in 1..Len(msg.answers[i].name) } :
              i \in 1..Len(msg.answers) }

\* the preconditions the round trip is stated under
LabelsAreText(msg) == \A l \in AllLabels(msg) : IsUtf8(l)

FieldsFit(h) ==
    /\ h.qr \in 0..1 /\ h.aa \in 0..1 /\ h.tc \in 0..1 /\ h.rd \in 0..1
    /\ h.ra \in 0..1 /\ h.opcode \in 0..15 /\ h.rcode \in 0..15 /\ h.z \in 0..7

CountsMatch(msg) ==
    /\ msg.header.qdcount = Len(msg.questions)
    /\ msg.header.ancount = Len(msg.answers)

\* what the wire format can carry: a label of 1 to 255 bytes (a length byte
\* of 0 ends the name), rdata of at most 65535 bytes
LabelsFitLengthByte(msg) ==
    /\ \A l \in AllLabels(msg) : Len(l) >= 1 /\ Len(l) <= 255
    /\ \A i \in 1..Len(msg.answers) : Len(msg.answers[i].data) <= 65535

RoundTrips == res.ok /\ res.val = m /\ res.rest = << >>

\* C1, as stated: every message with text labels, fitting header fields and
\* matching counts decodes from its own encoding to itself, nothing left over.
C1_RoundTripAsStated ==
    (stage = "decoded" /\ edit = "none" /\ LabelsAreText(m)
       /\ FieldsFit(m.header) /\ CountsMatch(m))
    => RoundTrips

\* C1, amended: the same, for messages whose labels are each 1 to 255 bytes
\* long and whose rdata is at most 65535 bytes long.
C1_RoundTrip ==
    (stage = "decoded" /\ edit = "none" /\ LabelsAreText(m)
       /\ FieldsFit(m.header) /\ CountsMatch(m) /\ LabelsFitLengthByte(m))
    => RoundTrips

C1_Witness ==
    /\ stage = "decoded" /\ edit = "none" /\ LabelsFitLengthByte(m)
    /\ Len(m.questions) = 2 /\ Len(m.answers) = 2 /\ m.header.opcode = 15
    /\ RoundTrips

\* C7: a header decode of fewer than 12 bytes fails with the not-enough-input
\* error, in dns.rs and in main.rs.
C7_HeaderTruncated ==
    (stage = "decoded" /\ Len(wire) < 12)
    => /\ ~hres.ok /\ hres.err = "Eof"
       /\ ~mhres.ok /\ mhres.err = "Eof"

C7_Witness ==
    /\ stage = "decoded" /\ edit = "cut" /\ Len(wire) = 11
    /\ ~hres.ok /\ ~mhres.ok

\* C8: the encoded header is the 12 bytes of the layout, and the header
\* decode gives the fields back, consuming those 12 bytes.
HeaderLayout(h) ==
    << h.id \div 256, h.id % 256,
       h.qr * 128 + h.opcode * 8 + h.aa * 4 + h.tc * 2 + h.rd,
       h.ra * 128 + h.z * 16 + h.rcode,
       h.qdcount \div 256, h.qdcount % 256, h.ancount \div 256, h.ancount % 256,
       h.nscount \div 256, h.nscount % 256, h.arcount \div 256, h.arcount % 256 >>

IsInverse(r) == r.ok /\ r.val = m.header /\ Len(r.rest) = Len(wire) - 12

C8_HeaderCodecBitExact ==
    (stage = "decoded" /\ edit = "none" /\ FieldsFit(m.header))
    => /\ SubSeq(wire, 1, 12) = HeaderLayout(m.header)
       /\ DnsHeader_to_bytes(m.header) = HeaderLayout(m.header)
       /\ IsInverse(hres)
       /\ IsInverse(mhres)

\* C9: a successful message decode holds the header, then as many questions
\* as qdcount and as many answers as ancount, read from consecutive bytes,
\* and returns the bytes after them; with qdcount = 1 and ancount = 0 the
\* bytes that follow the question are the remainder.
C9_CountDriven ==
    /\ (stage = "decoded" /\ res.ok) =>
          /\ hres.ok /\ res.val.header = hres.val
          /\ Len(res.val.questions) = hres.val.qdcount
          /\ Len(res.val.answers) = hres.val.ancount
          /\ wire = SubSeq(wire, 1, 12) \o ConcatQuestions(res.val.questions)
                    \o ConcatAnswers(res.val.answers) \o res.rest
    /\ (stage = "decoded" /\ edit = "padded" /\ LabelsFitLengthByte(m)
          /\ m.header.qdcount = 1 /\ m.header.ancount = 0) =>
          /\ res.ok
          /\ res.val.questions = m.questions /\ res.val.answers = << >>
          /\ res.rest = Drop(wire, Len(DnsMessage_to_bytes(m)))
          /\ res.rest \in Trailings

C9_Witness ==
    /\ stage = "decoded" /\ edit = "padded"
    /\ m.header.qdcount = 1 /\ m.header.ancount = 0
    /\ res.ok /\ Len(res.val.questions) = 1 /\ res.val.answers = << >>
    /\ res.rest = DnsQuestion_to_bytes(Question(NameGoogle, 1, 1))

(***************************************************************************)
(* Properties of the server (Spec, SpecLoaded).                            *)
(***************************************************************************)
\* C2: the response built for a decoded request keeps its id, opcode and
\* rd, is a response (qr = 1), and has rcode 0 for opcode 0 and 4 otherwise.
C2_ResponseHeader ==
    hpc = "send_to" =>
        /\ cur.response.header.id = cur.req.id
        /\ cur.response.header.opcode = cur.req.opcode
        /\ cur.response.header.rd = cur.req.rd
        /\ cur.response.header.qr = 1
        /\ cur.response.header.rcode = (IF cur.req.opcode = 0 THEN 0 ELSE 4)

\* C3: every response handed to send_to declares one question and one
\* answer (no authority, no additional record) and holds exactly those.
CountsAsEncoded(bytes) ==
    LET r == dns_msg(bytes) IN
    /\ r.ok
    /\ r.val.header.qdcount = 1 /\ r.val.header.ancount = 1
    /\ r.val.header.nscount = 0 /\ r.val.header.arcount = 0
    /\ Len(r.val.questions) = 1 /\ Len(r.val.answers) = 1
    /\ r.rest = << >>

C3_ResponseCounts ==
    /\ hpc = "send_to" => CountsAsEncoded(cur.bytes)
    /\ \A i \in 1..Len(sent) : CountsAsEncoded(sent[i].bytes)

\* C4: the channel never holds more than Capacity entries; a push completes
\* exactly when there is a free slot, and while it waits the receive loop
\* reads nothing; every datagram read is in the push, in the channel at its
\* place, or was taken by the actor.
Taken(s) == status[s] \in { "DecodeFailed", "ResponseBuilt", "Sent", "SendFailed" }

C4_Backpressure ==
    /\ Len(queue) <= Capacity
    /\ rpc = "tx_send" =>
          /\ (ENABLED TxSend) <=> Len(queue) < Capacity
          /\ ~ENABLED RecvFrom
          /\ ~ENABLED RecvFromErr
    /\ \A s \in 1..Len(arrived) :
          \/ /\ status[s] = "Received"
             /\ rpc = "tx_send"
             /\ pending = [ bytes |-> arrived[s].bytes,
                            addr |-> arrived[s].addr, seq |-> s ]
          \/ /\ status[s] = "Queued"
             /\ queue # << >>
             /\ s - Head(queue).seq + 1 \in 1..Len(queue)
             /\ queue[s - Head(queue).seq + 1]
                  = [ bytes |-> arrived[s].bytes, addr |-> arrived[s].addr,
                      seq |-> s ]
          \/ Taken(s)

C4_Witness ==
    /\ rpc = "tx_send" /\ Len(queue) = Capacity
    /\ status[pending.seq] = "Received"
    /\ ~ENABLED TxSend
    /\ ENABLED ActorRecv

\* C5: send_to is called in the order the datagrams were read, and the
\* actor has finished with every earlier datagram before it takes a later
\* one; the channel holds the datagrams in the order they were read.
C5_ArrivalOrder ==
    /\ \A i, j \in 1..Len(sent) : i < j => sent[i].seq < sent[j].seq
    /\ \A i, j \in 1..Len(queue) : i < j => queue[i].seq < queue[j].seq
    /\ \A s, t \in 1..Len(status) :
          (s < t /\ Taken(t)) => status[s] \in { "DecodeFailed", "Sent", "SendFailed" }

C5_Witness ==
    /\ Len(sent) = 2
    /\ sent[1].seq = 2 /\ sent[2].seq = 3
    /\ sent[1].addr # sent[2].addr
    /\ status[1] = "DecodeFailed"

\* C6: when the actor takes a datagram whose header does not decode, that
\* step only removes it from the channel and marks it failed: nothing is
\* sent, the other datagrams and the receive loop are untouched, the actor
\* waits for the next item; a failed datagram stays failed, and send_to is
\* only ever called for a datagram that decoded.
C6_DecodeFailureIsolation ==
    [][ /\ (/\ hpc = "rx_recv" /\ queue # << >>
            /\ ~main_dns_header(Head(queue).bytes).ok
            /\ Len(queue') < Len(queue))
           => /\ queue' = Tail(queue)
              /\ sent' = sent /\ hpc' = "rx_recv" /\ cur' = cur
              /\ status' = [ status EXCEPT ![Head(queue).seq] = "DecodeFailed" ]
              /\ pending' = pending /\ rpc' = rpc /\ arrived' = arrived
        /\ \A s \in 1..Len(status) :
              status[s] = "DecodeFailed" => status'[s] = "DecodeFailed"
        /\ \A i \in 1..Len(sent') :
              /\ main_dns_header(arrived[sent'[i].seq].bytes).ok
              /\ status'[sent'[i].seq] # "DecodeFailed"
      ]_vars

C6_Witness ==
    /\ hpc = "rx_recv"
    /\ \E s, t \in 1..Len(status) :
          /\ s < t
          /\ status[s] = "DecodeFailed" /\ ~main_dns_header(arrived[s].bytes).ok
          /\ status[t] = "Sent"
    /\ Len(sent) = 1

\* C10: a datagram that is a well-formed query (a header and the questions
\* it declares, nothing else) never ends as DecodeFailed: once the actor is
\* done with it, send_to was called for it exactly once, with the address
\* it came from.
WellFormedQuery(bytes) ==
    LET r == dns_msg(bytes) IN
    r.ok /\ r.rest = << >> /\ r.val.header.ancount = 0

SendsFor(s) == { i \in 1..Len(sent) : sent[i].seq = s }

C10_QueriesAnswered ==
    \A s \in 1..Len(arrived) :
        /\ Cardinality(SendsFor(s)) <= 1
        /\ (WellFormedQuery(arrived[s].bytes)
              /\ status[s] \in { "DecodeFailed", "Sent", "SendFailed" })
           => /\ status[s] \in { "Sent", "SendFailed" }
              /\ \E i \in SendsFor(s) : sent[i].addr = arrived[s].addr

=============================================================================
